---- MODULE Spec2Model ----
(***************************************************************************)
(* Event lifecycle tracker (EventTracker), duration-gated queue            *)
(* (EventQueue), JSON store (EventDatabase) and the 90-minute publishing   *)
(* cycle (PostScheduler) of the storm-overflow monitor.                    *)
(*                                                                         *)
(* Times are milliseconds as returned by Date.now(), counted from an       *)
(* arbitrary origin so that they fit the checker's integers.  JavaScript   *)
(* Maps are sequences of <<key, value>> entries in insertion order.        *)
(***************************************************************************)
EXTENDS Integers, Sequences, FiniteSets, TLC

----------------------------------------------------------------------------
(* Bounds of the model *)

MaxFeatures == 2
MaxTicks == 1
MaxCreated == 2
MaxInFlight == 1
MaxQueued == 17
MaxFirings == 3
MaxOverlap == 2
MaxArrivals == 6
MaxStarts == 30
MaxSlots == 3

(* Program constants *)

MsPerMinute == 60000
minDurationMinutes == 600
RetentionMs == 604800000
maxPostsPerDay == 16
intervalMinutes == 90
MsPerDay == 86400000

(* null / undefined of a numeric field *)
Null == 0 - 2000000000

(* Date.now() when the process starts: 17:40 UTC of the second day *)
StartClock == 150000000

----------------------------------------------------------------------------
(* Strings as tuples of characters *)

WATER_COMPANIES == <<"Anglian Water", "Thames Water">>

CompanyChars(name) ==
    IF name = "Anglian Water"
    THEN <<"A","n","g","l","i","a","n"," ","W","a","t","e","r">>
    ELSE <<"T","h","a","m","e","s"," ","W","a","t","e","r">>

LowerChar(ch) ==
    CASE ch = "A" -> "a"
      [] ch = "T" -> "t"
      [] ch = "W" -> "w"
      [] OTHER -> ch

toLowerCase(s) == [i \in DOMAIN s |-> LowerChar(s[i])]

IsSpace(ch) == ch = " "

(* s.replace(/\s+/g, '_'): every maximal run of whitespace becomes one '_' *)
RECURSIVE replaceSpaces(_)
replaceSpaces(s) ==
    IF s = << >> THEN << >>
    ELSE IF IsSpace(Head(s))
         THEN IF Len(s) > 1 /\ IsSpace(s[2])
              THEN replaceSpaces(Tail(s))
              ELSE <<"_">> \o replaceSpaces(Tail(s))
         ELSE <<Head(s)>> \o replaceSpaces(Tail(s))

(* waterCompany.toLowerCase().replace(/\s+/g, '_'), for every company of the config *)
CompanyKeys ==
    [name \in {WATER_COMPANIES[i] : i \in DOMAIN WATER_COMPANIES} |->
        replaceSpaces(toLowerCase(CompanyChars(name)))]

companyKeyOf(waterCompany) == CompanyKeys[waterCompany]

startsWith(s, prefix) ==
    /\ Len(s) >= Len(prefix)
    /\ SubSeq(s, 1, Len(prefix)) = prefix

----------------------------------------------------------------------------
(* JavaScript helpers *)

FalsyNum(x) == x = Null \/ x = 0

OrNum(x, y) == IF FalsyNum(x) THEN y ELSE x

(* variant: Math.floor in place of Math.round *)
RoundMinutesFloor(ms) == ms \div MsPerMinute

(* Math.round(ms / (1000 * 60)): nearest integer, halves towards +infinity *)
RoundMinutes(ms) == (2 * ms + MsPerMinute) \div (2 * MsPerMinute)

(* Map *)
MapHas(m, k) == \E i \in DOMAIN m : m[i].key = k

MapIndex(m, k) == CHOOSE i \in DOMAIN m : m[i].key = k

MapGet(m, k) == m[MapIndex(m, k)].value

(* variant: a list that is appended to, in place of a Map *)
MapSetAppend(m, k, v) == Append(m, [key |-> k, value |-> v])

MapSet(m, k, v) ==
    IF MapHas(m, k)
    THEN [m EXCEPT ![MapIndex(m, k)] = [key |-> k, value |-> v]]
    ELSE Append(m, [key |-> k, value |-> v])

(* variant: the delete is left out *)
MapDeleteKeeps(m, k) == m

MapDelete(m, k) == SelectSeq(m, LAMBDA en : en.key # k)

MapValues(m) == [i \in DOMAIN m |-> m[i].value]

MapKeys(m) == {m[i].key : i \in DOMAIN m}

----------------------------------------------------------------------------
(* EventQueue *)

NullStr == "<null>"

FalsyStr(s) == s = NullStr \/ s = ""

(* { ...event, addedToQueue: new Date().toISOString() } *)
QueueEntry(event, now) == ("addedToQueue" :> now) @@ event

(* variant: <= in place of < in the duration check *)
addEventStrict(q, event, now) ==
    IF event.durationMinutes <= q.minDurationMinutes
    THEN [queue |-> q, ret |-> FALSE]
    ELSE IF event.id \in q.postedEvents
         THEN [queue |-> q, ret |-> FALSE]
         ELSE [queue |-> [q EXCEPT !.events = MapSet(@, event.id, QueueEntry(event, now))],
               ret |-> TRUE]

(* addEvent: the queue afterwards and the returned boolean *)
addEvent(q, event, now) ==
    IF event.durationMinutes < q.minDurationMinutes
    THEN [queue |-> q, ret |-> FALSE]
    ELSE IF event.id \in q.postedEvents
         THEN [queue |-> q, ret |-> FALSE]
         ELSE [queue |-> [q EXCEPT !.events = MapSet(@, event.id, QueueEntry(event, now))],
               ret |-> TRUE]

(* variant: a sort that puts a later entry before an earlier one of the same endTime *)
RECURSIVE insertByEndTimeUnstable(_, _)
insertByEndTimeUnstable(sorted, e) ==
    IF sorted = << >> THEN <<e>>
    ELSE IF Head(sorted).endTime - e.endTime <= 0
         THEN <<e>> \o sorted
         ELSE <<Head(sorted)>> \o insertByEndTimeUnstable(Tail(sorted), e)

(* Array.prototype.sort with (a, b) => timeB - timeA: stable, descending *)
RECURSIVE insertByEndTime(_, _)
insertByEndTime(sorted, e) ==
    IF sorted = << >> THEN <<e>>
    ELSE IF Head(sorted).endTime - e.endTime < 0
         THEN <<e>> \o sorted
         ELSE <<Head(sorted)>> \o insertByEndTime(Tail(sorted), e)

RECURSIVE sortByEndTimeDesc(_, _)
sortByEndTimeDesc(sorted, rest) ==
    IF rest = << >> THEN sorted
    ELSE sortByEndTimeDesc(insertByEndTime(sorted, Head(rest)), Tail(rest))

(* variant: the filter on postedEvents is left out *)
getPostableEventsAll(q) == sortByEndTimeDesc(<< >>, MapValues(q.events))

getPostableEvents(q) ==
    LET unposted == SelectSeq(MapValues(q.events), LAMBDA e : e.id \notin q.postedEvents)
    IN sortByEndTimeDesc(<< >>, unposted)

markAsPosted(q, eventId) == [q EXCEPT !.postedEvents = @ \cup {eventId}]

(* variant: the ids of the evicted entries are also taken out of postedEvents *)
cleanupForgetsPosted(q, now) ==
    LET sevenDaysAgo == now - RetentionMs
        kept == SelectSeq(q.events, LAMBDA en : ~(en.value.endTime < sevenDaysAgo))
    IN [q EXCEPT !.events = kept,
                 !.postedEvents = @ \ (MapKeys(q.events) \ MapKeys(kept))]

(* variant: <= in place of < in the comparison with sevenDaysAgo *)
cleanupInclusive(q, now) ==
    LET sevenDaysAgo == now - RetentionMs
    IN [q EXCEPT !.events = SelectSeq(@, LAMBDA en : ~(en.value.endTime <= sevenDaysAgo))]

cleanup(q, now) ==
    LET sevenDaysAgo == now - RetentionMs
    IN [q EXCEPT !.events = SelectSeq(@, LAMBDA en : ~(en.value.endTime < sevenDaysAgo))]

EventQueue == [events |-> << >>, postedEvents |-> {}, minDurationMinutes |-> minDurationMinutes]

----------------------------------------------------------------------------
(* EventDatabase *)

OrNullNum(x) == IF FalsyNum(x) THEN Null ELSE x

OrNullStr(s) == IF FalsyStr(s) THEN NullStr ELSE s

(* variant: the lookup finds no record, so that every upsert appends *)
dbFindIndexNone(db, event) == 0

(* findIndex: the first record of the event's company, site and startTime, *)
(* 0 for the -1 of findIndex                                               *)
dbFindIndex(db, event) ==
    IF \E i \in DOMAIN db.events :
           /\ db.events[i].waterCompany = event.waterCompany
           /\ db.events[i].siteId = event.siteId
           /\ db.events[i].startTime = event.startTime
    THEN CHOOSE i \in DOMAIN db.events :
           /\ db.events[i].waterCompany = event.waterCompany
           /\ db.events[i].siteId = event.siteId
           /\ db.events[i].startTime = event.startTime
           /\ \A j \in 1..(i - 1) :
                ~(/\ db.events[j].waterCompany = event.waterCompany
                  /\ db.events[j].siteId = event.siteId
                  /\ db.events[j].startTime = event.startTime)
    ELSE 0

upsertEvent(db, event, now) ==
    LET existingIndex == dbFindIndex(db, event)
        eventData == [id |-> IF existingIndex > 0 THEN db.events[existingIndex].id ELSE db.nextId,
                      waterCompany |-> event.waterCompany,
                      siteId |-> event.siteId,
                      startTime |-> event.startTime,
                      endTime |-> OrNullNum(event.endTime),
                      durationMinutes |-> OrNullNum(event.durationMinutes),
                      status |-> event.status,
                      receivingWatercourse |-> OrNullStr(event.receivingWatercourse),
                      rawData |-> event.rawData]
    IN IF existingIndex > 0
       THEN [db EXCEPT !.events[existingIndex] = eventData]
       ELSE [events |-> Append(db.events, eventData), nextId |-> db.nextId + 1]

EventDatabase == [events |-> << >>, nextId |-> 1]

(* The store file, as fs.existsSync and JSON.parse find it: absent, not    *)
(* parseable, or the JSON text of data                                     *)
NoFile == [exists |-> FALSE, valid |-> FALSE, data |-> EventDatabase]

Malformed == [exists |-> TRUE, valid |-> FALSE, data |-> EventDatabase]

JsonFile(data) == [exists |-> TRUE, valid |-> TRUE, data |-> data]

(* loadData: the parsed file, or a fresh store when the file is absent or  *)
(* JSON.parse throws                                                       *)
loadData(f) == IF f.exists /\ f.valid THEN f.data ELSE EventDatabase

(* saveData: writeFileSync of JSON.stringify(this.data) over the file; an  *)
(* error of the write is caught and logged, and the file stays as it was   *)
saveData(data, f, writable) == IF writable THEN JsonFile(data) ELSE f

----------------------------------------------------------------------------
(* EventTracker *)

parseFeature(feature, waterCompany) ==
    [siteId |-> feature.Id,
     status |-> feature.Status,
     statusStart |-> feature.StatusStart,
     receivingWatercourse |-> feature.ReceivingWaterCourse,
     rawData |-> feature]

(* variant: a key that also depends on the record's statusStart *)
EventKeyWithStart(companyKey, parsed) ==
    companyKey \o <<":">> \o parsed.siteId
        \o (IF FalsyNum(parsed.statusStart) THEN << >> ELSE <<"@">>)

(* `${companyKey}:${parsed.siteId}` *)
EventKey(companyKey, parsed) == companyKey \o <<":">> \o parsed.siteId

generateEventId(feature, waterCompany) ==
    EventKey(companyKeyOf(waterCompany), parseFeature(feature, waterCompany))

(* The tracker with its collaborators, as threaded through one call:       *)
(* activeEvents, db and its file, whether the file can be written during   *)
(* the call, queue, and out, the console reports of the call               *)
(* ("new" for NEW EVENT DETECTED, "completed" for DISCHARGE EVENT          *)
(* COMPLETED with the outcome of the hand-off).                            *)

generateDischargeSummary(t, event, now) ==
    LET r == addEvent(t.queue, event, now)
    IN [t EXCEPT !.queue = r.queue,
                 !.out = Append(@, [kind |-> "completed", event |-> event, added |-> r.ret])]

newEvent(eventKey, waterCompany, parsed, now) ==
    LET actualStartTime == OrNum(parsed.statusStart, now)
    IN [id |-> eventKey,
        waterCompany |-> waterCompany,
        siteId |-> parsed.siteId,
        startTime |-> actualStartTime,
        endTime |-> Null,
        durationMinutes |-> Null,
        status |-> "active",
        receivingWatercourse |-> parsed.receivingWatercourse,
        rawData |-> parsed.rawData]

(* variant: the update also takes over the record's statusStart *)
updateEventRestart(existingEvent, parsed) ==
    [existingEvent EXCEPT !.rawData = parsed.rawData,
                          !.receivingWatercourse = parsed.receivingWatercourse,
                          !.startTime = OrNum(parsed.statusStart, @)]

updateEvent(existingEvent, parsed) ==
    [existingEvent EXCEPT !.rawData = parsed.rawData,
                          !.receivingWatercourse = parsed.receivingWatercourse]

(* variant: only status 0 counts as not discharging *)
isDischargingUnlessZero(parsed) == parsed.status # 0

(* const isDischarging = parsed.status === 1 *)
isDischarging(parsed) == parsed.status = 1

(* variant: a record without site id ends the loop (break for continue) *)
RECURSIVE featureLoopBreak(_, _, _, _, _)
featureLoopBreak(t, waterCompany, features, now, i) ==
    IF i > Len(features) THEN t
    ELSE
      LET parsed == parseFeature(features[i], waterCompany)
          eventKey == EventKey(companyKeyOf(waterCompany), parsed)
          seen == [t EXCEPT !.activeSiteIds = @ \cup {parsed.siteId}]
          t2 == IF ~isDischarging(parsed) THEN t
                ELSE IF ~MapHas(t.activeEvents, eventKey)
                     THEN LET event == newEvent(eventKey, waterCompany, parsed, now)
                              data == upsertEvent(seen.db, event, now)
                          IN [seen EXCEPT
                                !.db = data,
                                !.file = saveData(data, @, t.writable),
                                !.activeEvents = MapSet(@, eventKey, event),
                                !.out = Append(@, [kind |-> "new", event |-> event, added |-> FALSE])]
                     ELSE LET event == updateEvent(MapGet(t.activeEvents, eventKey), parsed)
                              data == upsertEvent(seen.db, event, now)
                          IN [seen EXCEPT
                                !.activeEvents = MapSet(@, eventKey, event),
                                !.db = data,
                                !.file = saveData(data, @, t.writable)]
      IN IF parsed.siteId = << >> THEN t
         ELSE featureLoopBreak(t2, waterCompany, features, now, i + 1)

(* for (const feature of features) { ... } *)
RECURSIVE featureLoop(_, _, _, _, _)
featureLoop(t, waterCompany, features, now, i) ==
    IF i > Len(features) THEN t
    ELSE
      LET parsed == parseFeature(features[i], waterCompany)
          companyKey == companyKeyOf(waterCompany)
          eventKey == EventKey(companyKey, parsed)
          seen == [t EXCEPT !.activeSiteIds = @ \cup {parsed.siteId}]
          t2 == IF parsed.siteId = << >> THEN t
                ELSE IF ~isDischarging(parsed) THEN t
                ELSE IF ~MapHas(t.activeEvents, eventKey)
                     THEN LET event == newEvent(eventKey, waterCompany, parsed, now)
                              data == upsertEvent(seen.db, event, now)
                          IN [seen EXCEPT
                                !.db = data,
                                !.file = saveData(data, @, t.writable),
                                !.activeEvents = MapSet(@, eventKey, event),
                                !.out = Append(@, [kind |-> "new", event |-> event, added |-> FALSE])]
                     ELSE LET event == updateEvent(MapGet(t.activeEvents, eventKey), parsed)
                              data == upsertEvent(seen.db, event, now)
                          IN [seen EXCEPT
                                !.activeEvents = MapSet(@, eventKey, event),
                                !.db = data,
                                !.file = saveData(data, @, t.writable)]
      IN featureLoop(t2, waterCompany, features, now, i + 1)

(* variant: the status is left as it is when the event ends *)
completeEventKeepsStatus(event, now) ==
    [event EXCEPT !.endTime = now,
                  !.durationMinutes = RoundMinutes(now - event.startTime)]

completeEvent(event, now) ==
    [event EXCEPT !.endTime = now,
                  !.durationMinutes = RoundMinutes(now - event.startTime),
                  !.status = "completed"]

(* variant: the events of every source are looked at *)
hasEndedAnySource(t, eventKey, companyKey) ==
    MapGet(t.activeEvents, eventKey).siteId \notin t.activeSiteIds

(* variant: the event key, not the site id, is looked up in activeSiteIds *)
hasEndedByKey(t, eventKey, companyKey) ==
    /\ startsWith(eventKey, companyKey \o <<":">>)
    /\ eventKey \notin t.activeSiteIds

(* eventKey.startsWith(companyKey + ':') and !activeSiteIds.has(event.siteId) *)
hasEnded(t, eventKey, companyKey) ==
    /\ startsWith(eventKey, companyKey \o <<":">>)
    /\ MapGet(t.activeEvents, eventKey).siteId \notin t.activeSiteIds

(* for (const [eventKey, event] of this.activeEvents.entries()) { ... } *)
RECURSIVE endLoop(_, _, _, _)
endLoop(t, waterCompany, now, entries) ==
    IF entries = << >> THEN t
    ELSE
      LET eventKey == Head(entries).key
          companyKey == companyKeyOf(waterCompany)
          t2 == IF /\ MapHas(t.activeEvents, eventKey)
                   /\ hasEnded(t, eventKey, companyKey)
                THEN LET event == completeEvent(MapGet(t.activeEvents, eventKey), now)
                         t1 == generateDischargeSummary(
                                   [t EXCEPT !.activeEvents = MapSet(@, eventKey, event)],
                                   event, now)
                         data == upsertEvent(t1.db, event, now)
                     IN [t1 EXCEPT !.db = data,
                                   !.file = saveData(data, @, t.writable),
                                   !.activeEvents = MapDelete(@, eventKey)]
                ELSE t
      IN endLoop(t2, waterCompany, now, Tail(entries))

(* variant: the end detection is left to a later step *)
processFeaturesDeferred(t, waterCompany, features, now) ==
    featureLoop([t EXCEPT !.activeSiteIds = {}], waterCompany, features, now, 1)

(* variant: saveData lets the error of the write through, which ends the   *)
(* call at its first upsertEvent: the record is in the store in memory,    *)
(* the tracker and the queue are as before                                 *)
processFeaturesSaveThrows(t, waterCompany, features, now) ==
    LET t0 == [t EXCEPT !.activeSiteIds = {}]
        t1 == featureLoop(t0, waterCompany, features, now, 1)
        t2 == endLoop(t1, waterCompany, now, t1.activeEvents)
    IN IF t.writable \/ t2.db = t.db THEN t2
       ELSE [t EXCEPT !.db = (IF t1.db # t.db THEN t1.db ELSE t2.db)]

processFeatures(t, waterCompany, features, now) ==
    LET t0 == [t EXCEPT !.activeSiteIds = {}]
        t1 == featureLoop(t0, waterCompany, features, now, 1)
    IN endLoop(t1, waterCompany, now, t1.activeEvents)

(* One iteration of checkAPI's loop over WATER_COMPANIES: result is the    *)
(* outcome of getAllOverflows, ok = FALSE when it threw.                   *)
checkCompany(t, waterCompany, result, now) ==
    IF ~result.ok THEN t
    ELSE IF Len(result.features) > 0
         THEN processFeatures(t, waterCompany, result.features, now)
         ELSE t

----------------------------------------------------------------------------
(* PostScheduler *)

(* new Date().toISOString().split('T')[0]: the UTC calendar day *)
todayOf(now) == now \div MsPerDay

resetDailyCounterIfNeeded(s, now) ==
    IF s.lastPostDate # todayOf(now)
    THEN [s EXCEPT !.postsToday = 0, !.lastPostDate = todayOf(now)]
    ELSE s

(* this.intervalMinutes * 60 * 1000 *)
intervalMs == intervalMinutes * 60 * 1000

(* new TwitterPoster(): isConfigured is whether the four credentials are   *)
(* set in the environment                                                  *)
TwitterPoster(credentials) == [isConfigured |-> credentials]

(* new PostScheduler(eventQueue, twitterPoster, dataGenerator) *)
PostSchedulerWith(twitterPoster) ==
    [postsToday |-> 0, lastPostDate |-> Null, isRunning |-> FALSE, twitterPoster |-> twitterPoster]

(* the scheduler of a deployment with credentials *)
PostScheduler == PostSchedulerWith(TwitterPoster(TRUE))

----------------------------------------------------------------------------
(* What the feeds can return *)

SiteIds == {<<"7">>, <<"8">>, <<"9">>}

PastStart == StartClock - 600 * MsPerMinute
FutureStart == StartClock + 2 * MsPerMinute

Feature(id, status, statusStart, watercourse) ==
    [Id |-> id, Status |-> status, StatusStart |-> statusStart,
     ReceivingWaterCourse |-> watercourse]

(* Both feeds report a site "7"; Thames Water also reports a site "8" *)
Features(waterCompany) ==
    IF waterCompany = WATER_COMPANIES[1]
    THEN {Feature(<<"7">>, 1, Null, "River Cam"),
          Feature(<<"7">>, 1, PastStart, "River Cam"),
          Feature(<<"7">>, 1, FutureStart, "River Lea"),
          Feature(<<"7">>, 0, Null, "River Cam")}
    ELSE {Feature(<<"7">>, 1, Null, "River Cam"),
          Feature(<<"8">>, 1, Null, "River Cam"),
          Feature(<<"7">>, -1, Null, "River Cam"),
          Feature(<< >>, 1, Null, "River Cam")}

RECURSIVE SeqsUpTo(_, _)
SeqsUpTo(S, n) ==
    IF n = 0 THEN {<< >>}
    ELSE LET shorter == SeqsUpTo(S, n - 1)
         IN shorter \cup {Append(q, x) : q \in {r \in shorter : Len(r) = n - 1}, x \in S}

FetchResults ==
    [name \in {WATER_COMPANIES[i] : i \in DOMAIN WATER_COMPANIES} |->
        {[ok |-> FALSE, features |-> << >>]}
        \cup {[ok |-> TRUE, features |-> fs] : fs \in SeqsUpTo(Features(name), MaxFeatures)}]

(* half a minute, and half a minute less than the ten hours of the threshold *)
TickSteps == {MsPerMinute \div 2, minDurationMinutes * MsPerMinute - MsPerMinute \div 2}

(* how processNextPost can end after its first await; threw: an exception *)
(* of a collaborator, caught at the end of processNextPost                 *)
CycleOutcomes == {"generateFailed", "publishFailed", "notConfigured", "tweetFailed", "threw", "success"}

----------------------------------------------------------------------------
(* State *)

VARIABLES
    clock,          \* Date.now()
    ticks,          \* how often the clock has advanced
    activeEvents,   \* EventTracker.activeEvents
    db,             \* EventDatabase.data
    file,           \* the store file on disk
    queue,          \* EventQueue: events, postedEvents, minDurationMinutes
    scheduler,      \* PostScheduler: postsToday, lastPostDate, isRunning, twitterPoster
    cycles,         \* batches of the publishing cycles in flight
    created,        \* history: events created so far
    monitor,        \* the checkAPI invocations in flight, and whether main has set their interval
    lastPoll,       \* history: the most recent checkAPI iteration and its reports
    lastCall,       \* history: the most recent call of the interface the queue or the tracker is driven by
    marked          \* history: ids markAsPosted was called for while they were queued

vars == <<clock, ticks, activeEvents, db, file, queue, scheduler, cycles, monitor, created,
          lastPoll, lastCall, marked>>

(* main before its first checkAPI *)
Monitor == [checks |-> << >>, interval |-> FALSE]

NoPoll == [company |-> "", outcome |-> "none", seen |-> {}, out |-> << >>]

NoCall == [flip |-> 0, op |-> "none", id |-> << >>, event |-> << >>, ret |-> FALSE, had |-> FALSE]

Init ==
    /\ clock = StartClock
    /\ ticks = 0
    /\ activeEvents = << >>
    /\ db = EventDatabase
    /\ file = NoFile
    /\ queue = EventQueue
    /\ scheduler = PostScheduler
    /\ cycles = << >>
    /\ monitor = Monitor
    /\ created = 0
    /\ lastPoll = NoPoll
    /\ lastCall = NoCall
    /\ marked = {}

(* Time passes *)
Tick ==
    /\ ticks < MaxTicks
    /\ \E step \in TickSteps : clock' = clock + step
    /\ ticks' = ticks + 1
    /\ UNCHANGED <<activeEvents, db, file, queue, scheduler, cycles, created, lastPoll, lastCall, marked, monitor>>

(* the site ids a snapshot reports as discharging *)
SeenDischarging(features) ==
    {features[i].Id : i \in {j \in DOMAIN features :
                                features[j].Status = 1 /\ features[j].Id # << >>}}

CountNew(out) == Cardinality({i \in DOMAIN out : out[i].kind = "new"})

(* checkAPI, one company: await getAllOverflows, then processFeatures,     *)
(* while the store file can be written or cannot                           *)
PollCompany(waterCompany, result, writable) ==
    \E r \in {checkCompany([activeEvents |-> activeEvents, db |-> db, file |-> file,
                              writable |-> writable,
                              queue |-> queue, activeSiteIds |-> {}, out |-> << >>],
                             waterCompany, result, clock)} :
       /\ created + CountNew(r.out) <= MaxCreated
       /\ activeEvents' = r.activeEvents
       /\ db' = r.db
       /\ file' = r.file
       /\ queue' = r.queue
       /\ created' = created + CountNew(r.out)
       /\ lastPoll' = [company |-> waterCompany,
                outcome |-> IF ~result.ok THEN "failed"
                                   ELSE IF result.features = << >> THEN "empty"
                                   ELSE "processed",
                       seen |-> SeenDischarging(result.features),
                       out |-> r.out]
       /\ UNCHANGED <<clock, ticks, scheduler, cycles, marked>>

(* main: the scheduler is started before the first checkAPI; the store    *)
(* file can be written                                                     *)
Poll ==
    /\ scheduler.isRunning
    /\ \E i \in DOMAIN WATER_COMPANIES : \E result \in FetchResults[WATER_COMPANIES[i]] :
          PollCompany(WATER_COMPANIES[i], result, TRUE)
    /\ UNCHANGED <<lastCall, monitor>>

(* variant: the cycle goes on with an empty batch *)
BeginCycleAlways(s, now) ==
    LET events == getPostableEvents(queue)
    IN /\ scheduler' = resetDailyCounterIfNeeded(s, now)
       /\ Len(cycles) < MaxInFlight
       /\ cycles' = Append(cycles, events)

(* processNextPost up to its first await, called at time now: the batch it *)
(* goes on with, while fewer than limit cycles are in flight               *)
BeginCycleWithin(s, now, limit) ==
    LET events == getPostableEvents(queue)
    IN /\ scheduler' = resetDailyCounterIfNeeded(s, now)
       /\ IF Len(events) = 0
          THEN cycles' = cycles
          ELSE /\ Len(cycles) < limit
               /\ cycles' = Append(cycles, events)

BeginCycle(s, now) == BeginCycleWithin(s, now, MaxInFlight)

(* start(): processNextPost at once, then every intervalMs *)
Start ==
    /\ ~scheduler.isRunning
    /\ BeginCycle([scheduler EXCEPT !.isRunning = TRUE], clock)
    /\ UNCHANGED <<clock, ticks, activeEvents, db, file, queue, created, lastPoll, lastCall, marked, monitor>>

(* the interval timer fires *)
PublishTick ==
    /\ scheduler.isRunning
    /\ BeginCycle(scheduler, clock)
    /\ UNCHANGED <<clock, ticks, activeEvents, db, file, queue, created, lastPoll, lastCall, marked, monitor>>

(* processNextPost from generateCycleData to its end *)
EndCycle(i, outcome) ==
    LET events == cycles[i]
        eventToPost == events[1]
    IN /\ (outcome = "notConfigured") => ~scheduler.twitterPoster.isConfigured
       /\ (outcome \in {"tweetFailed", "success"}) => scheduler.twitterPoster.isConfigured
       /\ cycles' = SubSeq(cycles, 1, i - 1) \o SubSeq(cycles, i + 1, Len(cycles))
       /\ IF outcome = "success"
          THEN /\ scheduler' = [scheduler EXCEPT !.postsToday = @ + 1]
               /\ queue' = markAsPosted(queue, eventToPost.id)
               /\ marked' = IF MapHas(queue.events, eventToPost.id)
                             THEN marked \cup {eventToPost.id} ELSE marked
          ELSE UNCHANGED <<scheduler, queue, marked>>
       /\ UNCHANGED <<clock, ticks, activeEvents, db, file, created, lastPoll, lastCall, monitor>>

FinishCycle ==
    \E i \in DOMAIN cycles : \E outcome \in CycleOutcomes : EndCycle(i, outcome)

Next == Tick \/ Start \/ Poll \/ PublishTick \/ FinishCycle

Spec == Init /\ [][Next]_vars

----------------------------------------------------------------------------
(* The queue on its own, under any sequence of calls of its interface *)

QueueKeys ==
    {generateEventId(Feature(s, 1, Null, "River Cam"), WATER_COMPANIES[1]) : s \in SiteIds}

QueueEvents ==
    {[id |-> k,
      waterCompany |-> WATER_COMPANIES[1],
      siteId |-> SubSeq(k, Len(k), Len(k)),
      startTime |-> e - d * MsPerMinute,
      endTime |-> e,
      durationMinutes |-> d,
      status |-> "completed",
      receivingWatercourse |-> "River Cam",
      rawData |-> Feature(SubSeq(k, Len(k), Len(k)), 1, Null, "River Cam")] :
        k \in QueueKeys,
        d \in {minDurationMinutes - 1, minDurationMinutes},
        e \in {StartClock - MsPerDay, StartClock}}

(* the seven days of the retention window: then an event that ended at    *)
(* StartClock is exactly seven days old, one that ended the day before is  *)
(* older                                                                   *)
QueueTickSteps == {RetentionMs}

QueueTick ==
    /\ ticks < MaxTicks
    /\ \E step \in QueueTickSteps : clock' = clock + step
    /\ ticks' = ticks + 1
    /\ UNCHANGED <<activeEvents, db, file, queue, scheduler, cycles, created, lastPoll, lastCall, marked, monitor>>

CallAddEvent ==
    \E event \in QueueEvents :
        LET r == addEvent(queue, event, clock)
        IN /\ queue' = r.queue
           /\ lastCall' = [flip |-> 1 - lastCall.flip, op |-> "addEvent", id |-> event.id,
                           event |-> event, ret |-> r.ret,
                           had |-> MapHas(queue.events, event.id)]
           /\ UNCHANGED <<clock, ticks, activeEvents, db, file, scheduler, cycles, created, lastPoll, marked, monitor>>

CallMarkAsPosted ==
    \E eventId \in QueueKeys :
        /\ queue' = markAsPosted(queue, eventId)
        /\ lastCall' = [flip |-> 1 - lastCall.flip, op |-> "markAsPosted", id |-> eventId,
                        event |-> << >>, ret |-> FALSE,
                        had |-> MapHas(queue.events, eventId)]
        /\ marked' = IF MapHas(queue.events, eventId) THEN marked \cup {eventId} ELSE marked
        /\ UNCHANGED <<clock, ticks, activeEvents, db, file, scheduler, cycles, created, lastPoll, monitor>>

CallCleanup ==
    /\ queue' = cleanup(queue, clock)
    /\ lastCall' = [flip |-> 1 - lastCall.flip, op |-> "cleanup", id |-> << >>,
                    event |-> << >>, ret |-> FALSE, had |-> FALSE]
    /\ UNCHANGED <<clock, ticks, activeEvents, db, file, scheduler, cycles, created, lastPoll, marked, monitor>>

QueueNext == QueueTick \/ CallAddEvent \/ CallMarkAsPosted \/ CallCleanup

QueueSpec == Init /\ [][QueueNext]_vars

----------------------------------------------------------------------------
(* The tracker on its own, under any sequence of snapshots; lastCall       *)
(* remembers the snapshot of the most recent call, and in had whether it   *)
(* is the snapshot of the call before                                      *)

Ingest ==
    \E i \in DOMAIN WATER_COMPANIES : \E result \in FetchResults[WATER_COMPANIES[i]] :
        /\ PollCompany(WATER_COMPANIES[i], result, TRUE)
        /\ lastCall' = [flip |-> 1 - lastCall.flip, op |-> "processFeatures",
                        id |-> companyKeyOf(WATER_COMPANIES[i]),
                        event |-> result.features, ret |-> result.ok,
                        had |-> /\ lastCall.op = "processFeatures"
                                /\ lastCall.id = companyKeyOf(WATER_COMPANIES[i])
                                /\ lastCall.event = result.features
                                /\ lastCall.ret = result.ok]
        /\ UNCHANGED monitor

(* the minute between two calls of checkAPI passes *)
MinutePasses ==
    /\ ticks < MaxTicks
    /\ clock' = clock + MsPerMinute
    /\ ticks' = ticks + 1
    /\ UNCHANGED <<activeEvents, db, file, queue, scheduler, cycles, created, lastPoll, lastCall, marked, monitor>>

TrackerNext == MinutePasses \/ Ingest

TrackerSpec == Init /\ [][TrackerNext]_vars

----------------------------------------------------------------------------
(* The scheduler on its own: any sequence of start, stop, timer ticks and  *)
(* cycle outcomes, over a queue that completed events are handed to        *)

DigitChars == <<"0", "1", "2", "3", "4", "5", "6", "7", "8", "9">>

(* String(n) for a natural number n *)
RECURSIVE decimal(_)
decimal(n) ==
    IF n < 10 THEN <<DigitChars[n + 1]>>
    ELSE decimal(n \div 10) \o <<DigitChars[(n % 10) + 1]>>

(* the n-th event handed to the queue: site n of the first company, ended  *)
(* now after ten hours                                                     *)
CompletedEvent(n, now) ==
    LET feature == Feature(decimal(n), 1, now - minDurationMinutes * MsPerMinute, "River Cam")
        event == newEvent(generateEventId(feature, WATER_COMPANIES[1]), WATER_COMPANIES[1],
                          parseFeature(feature, WATER_COMPANIES[1]), now)
    IN completeEvent(event, now)

Enqueue ==
    /\ Len(queue.events) < MaxQueued
    /\ queue' = addEvent(queue, CompletedEvent(Len(queue.events) + 1, clock), clock).queue
    /\ UNCHANGED <<clock, ticks, activeEvents, db, file, scheduler, cycles, created, lastPoll, lastCall, marked, monitor>>

(* stop(): the timer is cleared; a cycle in flight goes on *)
Stop ==
    /\ scheduler.isRunning
    /\ scheduler' = [scheduler EXCEPT !.isRunning = FALSE]
    /\ UNCHANGED <<clock, ticks, activeEvents, db, file, queue, cycles, created, lastPoll, lastCall, marked, monitor>>

(* intervalMs after start() or the last tick, the interval timer fires *)
IntervalFires ==
    /\ scheduler.isRunning
    /\ ticks < MaxTicks
    /\ clock' = clock + intervalMs
    /\ ticks' = ticks + 1
    /\ BeginCycle(scheduler, clock + intervalMs)
    /\ UNCHANGED <<activeEvents, db, file, queue, created, lastPoll, lastCall, marked, monitor>>

(* a day passes while the scheduler is stopped *)
Idle ==
    /\ ~scheduler.isRunning
    /\ ticks < MaxTicks
    /\ clock' = clock + MsPerDay
    /\ ticks' = ticks + 1
    /\ UNCHANGED <<activeEvents, db, file, queue, scheduler, cycles, created, lastPoll, lastCall, marked, monitor>>

SchedulerNext == Enqueue \/ Start \/ Stop \/ IntervalFires \/ Idle \/ FinishCycle

SchedulerSpec == Init /\ [][SchedulerNext]_vars

----------------------------------------------------------------------------
(* The publishing cycle for good: the interval timer keeps firing, with or *)
(* without credentials for Twitter, over a queue that completed events     *)
(* are handed to                                                           *)

LiveInit ==
    /\ clock = StartClock
    /\ ticks = 0
    /\ activeEvents = << >>
    /\ db = EventDatabase
    /\ file = NoFile
    /\ queue = EventQueue
    /\ scheduler \in {PostSchedulerWith(TwitterPoster(credentials)) : credentials \in BOOLEAN}
    /\ cycles = << >>
    /\ monitor = Monitor
    /\ created = 0
    /\ lastPoll = NoPoll
    /\ lastCall = NoCall
    /\ marked = {}

(* a completed event is handed to the queue *)
Arrival ==
    /\ Len(queue.events) < MaxArrivals
    /\ queue' = addEvent(queue, CompletedEvent(Len(queue.events) + 1, clock), clock).queue
    /\ UNCHANGED <<clock, ticks, activeEvents, db, file, scheduler, cycles, created, lastPoll, lastCall, marked, monitor>>

(* a cycle in flight gets through generateCycleData and publishToGitHub,   *)
(* and through the tweet when there is one                                 *)
PublishSucceeds ==
    \E i \in DOMAIN cycles : EndCycle(i, "success") \/ EndCycle(i, "notConfigured")

LiveNext == Start \/ Arrival \/ PublishTick \/ FinishCycle

(* setInterval keeps calling processNextPost, every await of a cycle       *)
(* settles, and the publish steps succeed again and again                  *)
LiveSpec ==
    /\ LiveInit
    /\ [][LiveNext]_vars
    /\ WF_vars(Start)
    /\ WF_vars(PublishTick)
    /\ WF_vars(FinishCycle)
    /\ SF_vars(PublishSucceeds)

----------------------------------------------------------------------------
(* The fixed-schedule variant of the scheduler: a timeout armed for the    *)
(* next of sixteen wall-clock slots, whose callback awaits processNextPost *)
(* and arms the following one.  Date's local time is that of               *)
(* Europe/London, the locale the program formats its times for, around the *)
(* end of summer time: one hour ahead of UTC until SummerTimeEnds, UTC     *)
(* from then on.                                                           *)

MsPerHour == 60 * MsPerMinute

(* 01:00 UTC of the third day: 02:00 summer time becomes 01:00 *)
SummerTimeEnds == 2 * MsPerDay + MsPerHour

tzOffset(t) == IF t < SummerTimeEnds THEN MsPerHour ELSE 0

LocalTime(t) == t + tzOffset(t)

(* the time value of a local time; a local time of the hour that occurs    *)
(* twice is taken with the offset before the transition                    *)
UTCOfLocal(tlocal) == IF tlocal - MsPerHour < SummerTimeEnds THEN tlocal - MsPerHour ELSE tlocal

getHours(t) == (LocalTime(t) % MsPerDay) \div MsPerHour

getMinutes(t) == (LocalTime(t) % MsPerHour) \div MsPerMinute

(* date.setHours(hours, minutes, 0, 0) *)
setHours(t, hours, minutes) ==
    UTCOfLocal(LocalTime(t) - (LocalTime(t) % MsPerDay) + hours * MsPerHour + minutes * MsPerMinute)

(* date.setDate(date.getDate() + 1) *)
setDateTomorrow(t) == UTCOfLocal(LocalTime(t) + MsPerDay)

(* for (let i = 0; i < 16; i++) this.postingTimes.push(i * 90) *)
postingTimes == [i \in 1..16 |-> (i - 1) * 90]

getNextScheduledTime(now) ==
    LET currentMinutes == getHours(now) * 60 + getMinutes(now)
        later == {i \in DOMAIN postingTimes : postingTimes[i] > currentMinutes}
    IN IF later # {}
       THEN LET postTime == postingTimes[CHOOSE i \in later : \A j \in later : i <= j]
            IN setHours(now, postTime \div 60, postTime % 60)
       ELSE setHours(setDateTomorrow(now), 0, 0)

getMsUntilNextPost(now) == getNextScheduledTime(now) - now

(* this.timer: set when it holds a handle, armed while the timeout of the  *)
(* handle is pending, at the time it fires                                 *)
NoTimer == [set |-> FALSE, armed |-> FALSE, at |-> 0]

(* setTimeout(callback, ms): a delay below 1 is taken as 1 *)
setTimeout(now, ms) == [set |-> TRUE, armed |-> TRUE, at |-> now + (IF ms < 1 THEN 1 ELSE ms)]

(* scheduleNextPost: the pending timeout, if any, is cleared and the next  *)
(* one is armed                                                            *)
scheduleNextPost(s, now) == [s EXCEPT !.timer = setTimeout(now, getMsUntilNextPost(now))]

(* the constructor of the variant *)
FixedScheduler ==
    [postsToday |-> 0, lastPostDate |-> Null, isRunning |-> FALSE,
     twitterPoster |-> TwitterPoster(TRUE), timer |-> NoTimer]

(* the process starts at one of these times, twenty minutes apart *)
Starts == {StartClock + k * 20 * MsPerMinute : k \in 0..MaxStarts}

FixedInit ==
    /\ clock \in Starts
    /\ ticks = 0
    /\ activeEvents = << >>
    /\ db = EventDatabase
    /\ file = NoFile
    /\ queue = EventQueue
    /\ scheduler = FixedScheduler
    /\ cycles = << >>
    /\ monitor = Monitor
    /\ created = 0
    /\ lastPoll = NoPoll
    /\ lastCall = NoCall
    /\ marked = {}

(* start(): nothing when already running, else scheduleNextPost *)
FixedStart ==
    /\ scheduler' = IF scheduler.isRunning THEN scheduler
                    ELSE scheduleNextPost([scheduler EXCEPT !.isRunning = TRUE], clock)
    /\ UNCHANGED <<clock, ticks, activeEvents, db, file, queue, cycles, created, lastPoll, lastCall, marked, monitor>>

(* stop(): the pending timeout is cleared; a callback in flight goes on *)
FixedStop ==
    /\ scheduler' = [scheduler EXCEPT !.timer = NoTimer, !.isRunning = FALSE]
    /\ UNCHANGED <<clock, ticks, activeEvents, db, file, queue, cycles, created, lastPoll, lastCall, marked, monitor>>

(* the timeout fires: processNextPost up to its first await, and when it   *)
(* returns at once (nothing postable), scheduleNextPost                    *)
FixedTimerFires ==
    /\ scheduler.timer.armed
    /\ ticks < MaxSlots
    /\ clock' = scheduler.timer.at
    /\ ticks' = ticks + 1
    /\ LET now == scheduler.timer.at
           events == getPostableEvents(queue)
           s == resetDailyCounterIfNeeded([scheduler EXCEPT !.timer.armed = FALSE], now)
       IN IF Len(events) = 0
          THEN /\ scheduler' = scheduleNextPost(s, now)
               /\ cycles' = cycles
          ELSE /\ Len(cycles) < MaxOverlap
               /\ scheduler' = s
               /\ cycles' = Append(cycles, events)
    /\ UNCHANGED <<activeEvents, db, file, queue, created, lastPoll, lastCall, marked, monitor>>

(* the ids of a batch *)
BatchIds(events) == {events[k].id : k \in DOMAIN events}

(* the callback from generateCycleData on: the rest of processNextPost,    *)
(* which marks every event of the batch after a tweet, then                *)
(* scheduleNextPost                                                        *)
FixedEndCycle(i, outcome) ==
    LET events == cycles[i]
        posted == [scheduler EXCEPT !.postsToday = @ + 1]
    IN /\ (outcome = "notConfigured") => ~scheduler.twitterPoster.isConfigured
       /\ (outcome \in {"tweetFailed", "success"}) => scheduler.twitterPoster.isConfigured
       /\ cycles' = SubSeq(cycles, 1, i - 1) \o SubSeq(cycles, i + 1, Len(cycles))
       /\ IF outcome = "success"
          THEN /\ scheduler' = scheduleNextPost(posted, clock)
               /\ queue' = [queue EXCEPT !.postedEvents = @ \cup BatchIds(events)]
               /\ marked' = marked \cup (BatchIds(events) \cap MapKeys(queue.events))
          ELSE /\ scheduler' = scheduleNextPost(scheduler, clock)
               /\ UNCHANGED <<queue, marked>>
       /\ UNCHANGED <<clock, ticks, activeEvents, db, file, created, lastPoll, lastCall, monitor>>

FixedFinishCycle ==
    \E i \in DOMAIN cycles : \E outcome \in CycleOutcomes : FixedEndCycle(i, outcome)

(* a completed event is handed to the queue *)
FixedArrival ==
    /\ Len(queue.events) < MaxCreated
    /\ queue' = addEvent(queue, CompletedEvent(Len(queue.events) + 1, clock), clock).queue
    /\ UNCHANGED <<clock, ticks, activeEvents, db, file, scheduler, cycles, created, lastPoll, lastCall, marked, monitor>>

FixedNext == FixedStart \/ FixedStop \/ FixedTimerFires \/ FixedFinishCycle \/ FixedArrival

FixedSpec == FixedInit /\ [][FixedNext]_vars

----------------------------------------------------------------------------
(* The two timers of main on the event loop: checkAPI every minute, each   *)
(* invocation awaiting one fetch per company in turn, and processNextPost  *)
(* every intervalMs; ticks counts the firings                              *)

(* the snapshots of at most one record *)
SingleResults ==
    [name \in {WATER_COMPANIES[i] : i \in DOMAIN WATER_COMPANIES} |->
        {[ok |-> FALSE, features |-> << >>]}
        \cup {[ok |-> TRUE, features |-> fs] : fs \in SeqsUpTo(Features(name), 1)}]

(* variant: the try/catch around the loop, so that a throw ends the loop *)
nextCompanyAfterThrow(i, result) == IF result.ok THEN i + 1 ELSE Len(WATER_COMPANIES) + 1

(* for (... of Object.entries(WATER_COMPANIES)) { try { ... } catch { ... } }: *)
(* the company the loop goes on with after company i                       *)
nextCompany(i, result) == i + 1

(* the monitor once invocation k has dealt with the result of its fetch; *)
(* main sets the interval when its first checkAPI has returned           *)
afterFetch(m, k, result) ==
    LET next == nextCompany(m.checks[k], result)
    IN IF next <= Len(WATER_COMPANIES)
       THEN [m EXCEPT !.checks[k] = next]
       ELSE [checks |-> SubSeq(m.checks, 1, k - 1) \o SubSeq(m.checks, k + 1, Len(m.checks)),
             interval |-> TRUE]

(* main: await eventTracker.checkAPI(), up to its first fetch *)
FirstCheckAPI ==
    /\ scheduler.isRunning
    /\ ~monitor.interval
    /\ monitor.checks = << >>
    /\ monitor' = [monitor EXCEPT !.checks = <<1>>]
    /\ UNCHANGED <<clock, ticks, activeEvents, db, file, queue, scheduler, cycles, created,
                   lastPoll, lastCall, marked>>

(* setInterval(..., 60 * 1000): a minute later checkAPI is called again *)
MonitorTimerFires ==
    /\ monitor.interval
    /\ ticks < MaxFirings
    /\ Len(monitor.checks) < MaxOverlap
    /\ clock' = clock + 60 * 1000
    /\ ticks' = ticks + 1
    /\ monitor' = [monitor EXCEPT !.checks = Append(@, 1)]
    /\ UNCHANGED <<activeEvents, db, file, queue, scheduler, cycles, created, lastPoll, lastCall, marked>>

(* the fetch an invocation awaits returns or throws: processFeatures,      *)
(* with a store file that can be written or cannot, and the next company's *)
(* fetch or the end of the invocation                                      *)
FetchReturns ==
    \E k \in DOMAIN monitor.checks :
        \E result \in SingleResults[WATER_COMPANIES[monitor.checks[k]]], writable \in BOOLEAN :
            /\ PollCompany(WATER_COMPANIES[monitor.checks[k]], result, writable)
            /\ monitor' = afterFetch(monitor, k, result)
            /\ UNCHANGED lastCall

(* the interval timer of start() fires, intervalMs later *)
PublishTimerFires ==
    /\ scheduler.isRunning
    /\ ticks < MaxFirings
    /\ clock' = clock + intervalMs
    /\ ticks' = ticks + 1
    /\ BeginCycleWithin(scheduler, clock + intervalMs, MaxOverlap)
    /\ UNCHANGED <<activeEvents, db, file, queue, monitor, created, lastPoll, lastCall, marked>>

(* the retention window and two minutes pass in which no site discharges   *)
(* and no cycle posts: the calls of checkAPI find nothing to track, those  *)
(* of processNextPost run the daily reset; one such week is looked at      *)
QuietWeek ==
    /\ clock < StartClock + RetentionMs
    /\ monitor.interval
    /\ monitor.checks = << >>
    /\ activeEvents = << >>
    /\ cycles = << >>
    /\ ticks < MaxFirings
    /\ clock' = clock + RetentionMs + 2 * 60 * 1000
    /\ ticks' = ticks + 1
    /\ scheduler' = resetDailyCounterIfNeeded(scheduler, clock + RetentionMs + 2 * 60 * 1000)
    /\ UNCHANGED <<activeEvents, db, file, queue, cycles, monitor, created, lastPoll, lastCall, marked>>

LoopNext ==
    \/ Start
    \/ FirstCheckAPI
    \/ MonitorTimerFires
    \/ FetchReturns
    \/ PublishTimerFires
    \/ FinishCycle
    \/ QuietWeek

LoopSpec == Init /\ [][LoopNext]_vars

----------------------------------------------------------------------------
(* The process killed and started again over the store file it left *)

(* the constructors of main: the store is loaded from the file as it was   *)
(* left or, damaged meanwhile, not parseable; the tracker, the queue and   *)
(* the scheduler start empty                                               *)
Restart ==
    \E f \in {file} \cup (IF file.exists THEN {Malformed} ELSE {}) :
        /\ file' = f
        /\ db' = loadData(f)
        /\ activeEvents' = << >>
        /\ queue' = EventQueue
        /\ scheduler' = PostScheduler
        /\ cycles' = << >>
        /\ monitor' = Monitor
        /\ UNCHANGED <<clock, ticks, created, lastPoll, lastCall, marked>>

(* one iteration of checkAPI's loop *)
PollOne ==
    /\ \E i \in DOMAIN WATER_COMPANIES : \E result \in SingleResults[WATER_COMPANIES[i]] :
          PollCompany(WATER_COMPANIES[i], result, TRUE)
    /\ UNCHANGED <<lastCall, monitor>>

RestartNext == MinutePasses \/ PollOne \/ Restart

RestartSpec == Init /\ [][RestartNext]_vars

----------------------------------------------------------------------------
(* Properties of the event tracker, under Spec *)

PollStep == lastPoll' # lastPoll

Reported(out, kind) == {i \in DOMAIN out : out[i].kind = kind}

(* the event id a tracked event stands for: source key + ':' + site id *)
EventIdOf(event) ==
    replaceSpaces(toLowerCase(CompanyChars(event.waterCompany))) \o <<":">> \o event.siteId

(* C1: activeEvents never holds two events for the same event id (source   *)
(* key + ':' + siteId); every event it holds is Active and is stored under *)
(* its own event id.                                                       *)
C1_OneActivePerEventId ==
    /\ \A i, j \in DOMAIN activeEvents :
          EventIdOf(activeEvents[i].value) = EventIdOf(activeEvents[j].value) => i = j
    /\ \A i \in DOMAIN activeEvents :
          /\ activeEvents[i].value.status = "active"
          /\ activeEvents[i].value.id = EventIdOf(activeEvents[i].value)
          /\ activeEvents[i].key = activeEvents[i].value.id

(* two sources track the same site id at once, and one of the events has   *)
(* been updated from a record with another statusStart                     *)
C1_Witness ==
    /\ Len(activeEvents) = 2
    /\ activeEvents[1].value.siteId = activeEvents[2].value.siteId
    /\ \E i \in DOMAIN activeEvents :
          /\ ~FalsyNum(activeEvents[i].value.rawData.StatusStart)
          /\ activeEvents[i].value.rawData.StatusStart # activeEvents[i].value.startTime

(* C2: every completion a poll reports is of an event that was Active      *)
(* before the poll, is reported once, has status completed and is no       *)
(* longer in activeEvents afterwards; an event enters activeEvents only by *)
(* being created.  So no event is completed twice.                         *)
C2_CompletedExactlyOnce ==
    [][PollStep =>
        LET out == lastPoll'.out
        IN /\ \A i \in Reported(out, "completed") :
                /\ MapHas(activeEvents, out[i].event.id)
                /\ MapGet(activeEvents, out[i].event.id).status = "active"
                /\ out[i].event.status = "completed"
                /\ ~MapHas(activeEvents', out[i].event.id)
                /\ \A j \in Reported(out, "completed") :
                      out[j].event.id = out[i].event.id => i = j
           /\ \A k \in MapKeys(activeEvents') \ MapKeys(activeEvents) :
                \E i \in Reported(out, "new") : out[i].event.id = k
    ]_vars

(* a poll has reported a completion of an event of a site that was         *)
(* completed before (the store holds the earlier completion)               *)
C2_Witness ==
    \E i \in Reported(lastPoll.out, "completed") :
        /\ ~MapHas(activeEvents, lastPoll.out[i].event.id)
        /\ \E r \in DOMAIN db.events :
              /\ db.events[r].status = "completed"
              /\ db.events[r].waterCompany = lastPoll.out[i].event.waterCompany
              /\ db.events[r].siteId = lastPoll.out[i].event.siteId
              /\ db.events[r].startTime # lastPoll.out[i].event.startTime

FixedFields == {"id", "waterCompany", "siteId", "startTime", "endTime", "durationMinutes", "status"}

(* C3: while an event id stays in activeEvents its startTime (and every    *)
(* field other than watercourse and raw attributes) does not change.       *)
C3_StartTimeFixed ==
    [][\A i \in DOMAIN activeEvents : \A j \in DOMAIN activeEvents' :
          activeEvents[i].key = activeEvents'[j].key =>
              \A f \in FixedFields : activeEvents'[j].value[f] = activeEvents[i].value[f]
    ]_vars

(* an Active event whose latest record carries a statusStart other than    *)
(* the event's startTime                                                   *)
C3_Witness ==
    \E i \in DOMAIN activeEvents :
        /\ activeEvents[i].value.rawData.StatusStart = FutureStart
        /\ activeEvents[i].value.startTime # FutureStart
        /\ activeEvents[i].value.receivingWatercourse = "River Lea"

(* C4: after a successful fetch for a source, every event of that source   *)
(* that was Active and is not reported as discharging has been completed   *)
(* and removed, also when the snapshot is empty.                           *)
C4_EndDetection ==
    [][(PollStep /\ lastPoll'.outcome \in {"processed", "empty"}) =>
        \A i \in DOMAIN activeEvents :
            (/\ activeEvents[i].value.waterCompany = lastPoll'.company
             /\ activeEvents[i].value.siteId \notin lastPoll'.seen)
            => /\ ~MapHas(activeEvents', activeEvents[i].key)
               /\ \E c \in Reported(lastPoll'.out, "completed") :
                     lastPoll'.out[c].event.id = activeEvents[i].key
    ]_vars

(* d is ms / 60000 rounded to the nearest integer, halves upwards *)
IsRoundedMinutes(d, ms) == 60000 * d - 30000 <= ms /\ ms < 60000 * d + 30000

(* C5: a completed event has endTime = the now of the poll that found it   *)
(* ended and durationMinutes = round((endTime - startTime) / 60000), with  *)
(* the startTime it had while Active; the queue entry made from it carries *)
(* the same values.                                                        *)
C5_EndTimeAndDuration ==
    [][PollStep =>
        \A i \in Reported(lastPoll'.out, "completed") :
            LET event == lastPoll'.out[i].event
            IN /\ MapHas(activeEvents, event.id)
               /\ event.startTime = MapGet(activeEvents, event.id).startTime
               /\ event.endTime = clock
               /\ IsRoundedMinutes(event.durationMinutes, event.endTime - event.startTime)
               /\ lastPoll'.out[i].added =>
                     /\ MapHas(queue'.events, event.id)
                     /\ MapGet(queue'.events, event.id).endTime = clock
                     /\ MapGet(queue'.events, event.id).durationMinutes = event.durationMinutes
    ]_vars

(* an event found ended 599.5 minutes after its start: 600 minutes, queued *)
C5_Witness ==
    \E i \in Reported(lastPoll.out, "completed") :
        /\ lastPoll.out[i].event.endTime - lastPoll.out[i].event.startTime = 35970000
        /\ lastPoll.out[i].event.durationMinutes = 600
        /\ lastPoll.out[i].added

(* C6: the durationMinutes of a completed event is never negative.         *)
C6_NonNegativeDuration ==
    \A i \in Reported(lastPoll.out, "completed") :
        lastPoll.out[i].event.durationMinutes >= 0

(* C7: addEvent for an event whose id has an entry in the queue that was   *)
(* not dispatched returns false and leaves that entry as it was.           *)
C7_IdempotentAdd ==
    [][PollStep =>
        \A i \in Reported(lastPoll'.out, "completed") :
            LET id == lastPoll'.out[i].event.id
            IN (MapHas(queue.events, id) /\ id \notin queue.postedEvents)
               => /\ ~lastPoll'.out[i].added
                  /\ MapHas(queue'.events, id)
                  /\ MapGet(queue'.events, id) = MapGet(queue.events, id)
    ]_vars

----------------------------------------------------------------------------
(* Properties of the queue, under QueueSpec *)

CallStep == lastCall'.flip # lastCall.flip

EntriesOf(q, id) == {i \in DOMAIN q.events : q.events[i].value.id = id}

(* C8: the queue holds at most one entry per event id, stored under that   *)
(* id; after an accepted addEvent there is exactly one entry for the id,   *)
(* also when an entry for it was there before the call.                    *)
C8_OneEntryPerEventId ==
    /\ \A i, j \in DOMAIN queue.events :
          queue.events[i].value.id = queue.events[j].value.id => i = j
    /\ \A i \in DOMAIN queue.events : queue.events[i].key = queue.events[i].value.id
    /\ (lastCall.op = "addEvent" /\ lastCall.ret) =>
          Cardinality(EntriesOf(queue, lastCall.id)) = 1

(* addEvent was accepted for an id that already had an entry *)
C8_Witness ==
    /\ lastCall.op = "addEvent"
    /\ lastCall.had
    /\ lastCall.ret
    /\ Len(queue.events) = 2

C10_PostedNeverReturned ==
    \A i \in DOMAIN getPostableEvents(queue) : getPostableEvents(queue)[i].id \notin marked

(* addEvent was called again for a dispatched id whose entry is still      *)
(* stored, while another event is postable                                 *)
C10_Witness ==
    /\ lastCall.op = "addEvent"
    /\ lastCall.id \in marked
    /\ MapHas(queue.events, lastCall.id)
    /\ Len(getPostableEvents(queue)) = 1

(* C11: addEvent for an id that was dispatched (markAsPosted was called    *)
(* for it while it was queued) returns false and leaves the queue as it    *)
(* was, also after cleanup has evicted the entry: a dispatched id stays in *)
(* postedEvents for good.                                                  *)
C11_NoReAddAfterDispatch ==
    [][/\ (CallStep /\ lastCall'.op = "addEvent" /\ lastCall'.id \in marked)
          => (~lastCall'.ret /\ queue' = queue)
       /\ marked' \subseteq queue'.postedEvents
    ]_vars

(* addEvent of a 600-minute event was refused for a dispatched id whose    *)
(* entry cleanup has evicted                                               *)
C11_Witness ==
    /\ lastCall.op = "addEvent"
    /\ lastCall.id \in marked
    /\ ~MapHas(queue.events, lastCall.id)
    /\ lastCall.event.durationMinutes = 600
    /\ ~lastCall.ret

C13_MarkAbsentIsNoOp ==
    [][(/\ CallStep
        /\ lastCall'.op = "addEvent"
        /\ lastCall'.event.durationMinutes >= 600
        /\ lastCall'.id \notin marked)
       => lastCall'.ret
    ]_vars

(* C14: cleanup deletes every entry whose endTime is before now - 7 days,  *)
(* dispatched or not, keeps every other entry as it was and in its place,  *)
(* and adds none.                                                          *)
C14_CleanupByAge ==
    [][(CallStep /\ lastCall'.op = "cleanup") =>
        /\ \A i \in DOMAIN queue.events :
              IF queue.events[i].value.endTime < clock - 604800000
              THEN ~MapHas(queue'.events, queue.events[i].key)
              ELSE /\ MapHas(queue'.events, queue.events[i].key)
                   /\ MapGet(queue'.events, queue.events[i].key) = queue.events[i].value
        /\ MapKeys(queue'.events) \subseteq MapKeys(queue.events)
        /\ \A i, j \in DOMAIN queue'.events :
              i < j => MapIndex(queue.events, queue'.events[i].key) < MapIndex(queue.events, queue'.events[j].key)
    ]_vars

(* cleanup has run exactly seven days after the end of an entry it kept,   *)
(* or has evicted a dispatched entry and kept a younger one                *)
C14_Witness ==
    /\ lastCall.op = "cleanup"
    /\ \/ \E i \in DOMAIN queue.events : queue.events[i].value.endTime = clock - RetentionMs
       \/ /\ \E id \in marked : ~MapHas(queue.events, id)
          /\ queue.events # << >>

----------------------------------------------------------------------------
(* Properties of the publishing cycle *)

(* a step in which processNextPost is called (by start() or by the timer)  *)
(* and changes something                                                   *)
CycleBeginStep ==
    /\ Len(cycles') >= Len(cycles)
    /\ (scheduler' # scheduler \/ cycles' # cycles)

(* a step in which a cycle in flight ends, and the batches it can be of *)
CycleEndStep == Len(cycles') < Len(cycles)

EndedBatches ==
    {cycles[i] : i \in {j \in DOMAIN cycles :
        cycles' = SubSeq(cycles, 1, j - 1) \o SubSeq(cycles, j + 1, Len(cycles))}}

PostableIds(q) == {getPostableEvents(q)[j].id : j \in DOMAIN getPostableEvents(q)}

(* C15: when a cycle ends with a successful post, every event of the batch *)
(* it read at its start is in postedEvents and none of them is returned by *)
(* getPostableEvents afterwards.                                           *)
C15_SuccessMarksWholeBatch ==
    [][(CycleEndStep /\ scheduler'.postsToday = scheduler.postsToday + 1) =>
        \A b \in EndedBatches : \A k \in DOMAIN b :
            /\ b[k].id \in queue'.postedEvents
            /\ b[k].id \notin PostableIds(queue')
    ]_vars

(* C16: when a cycle ends without a post, postedEvents is as before and    *)
(* every event of the batch it read is returned by getPostableEvents       *)
(* afterwards.                                                             *)
C16_FailureKeepsBatch ==
    [][(CycleEndStep /\ scheduler'.postsToday = scheduler.postsToday) =>
        /\ queue'.postedEvents = queue.postedEvents
        /\ \A b \in EndedBatches : \A k \in DOMAIN b :
              \E j \in DOMAIN getPostableEvents(queue') : getPostableEvents(queue')[j] = b[k]
    ]_vars

(* C17: a call of processNextPost that finds getPostableEvents empty       *)
(* starts no cycle and changes neither the queue nor postsToday.           *)
C17_EmptyTickChangesNothing ==
    [][(CycleBeginStep /\ getPostableEvents(queue) = << >>) =>
        /\ cycles' = cycles
        /\ queue' = queue
        /\ scheduler'.postsToday = scheduler.postsToday
    ]_vars

(* C17, amended: a call of processNextPost that finds getPostableEvents    *)
(* empty starts no cycle and leaves the queue as it is; postsToday is not  *)
(* incremented, and changes only by the daily reset: when the UTC day is   *)
(* not lastPostDate, postsToday becomes 0 and lastPostDate that day.       *)
C17_EmptyTickOnlyResets ==
    [][(CycleBeginStep /\ getPostableEvents(queue) = << >>) =>
        /\ cycles' = cycles
        /\ queue' = queue
        /\ marked' = marked
        /\ IF scheduler.lastPostDate # clock \div 86400000
           THEN scheduler'.postsToday = 0 /\ scheduler'.lastPostDate = clock \div 86400000
           ELSE /\ scheduler'.postsToday = scheduler.postsToday
                /\ scheduler'.lastPostDate = scheduler.lastPostDate
    ]_vars

(* after a post on an earlier day, the first call of a new day found       *)
(* nothing postable and has reset the counter                              *)
C17_Witness ==
    /\ marked # {}
    /\ scheduler.postsToday = 0
    /\ scheduler.lastPostDate = todayOf(clock)
    /\ todayOf(clock) # todayOf(StartClock)
    /\ getPostableEvents(queue) = << >>
    /\ cycles = << >>

(* C18: postsToday never exceeds maxPostsPerDay.                           *)
C18_DailyCap == scheduler.postsToday <= 16

----------------------------------------------------------------------------
(* Sources sharing site ids, and replayed snapshots *)

EntriesOfCompany(m, waterCompany) ==
    SelectSeq(m, LAMBDA en : en.value.waterCompany = waterCompany)

(* C19: the activeEvents entries of a source change (are created, updated, *)
(* completed or removed) only in a step that processes a snapshot of that  *)
(* source, and such a step reports only events of that source; so a        *)
(* snapshot of A leaves every entry of another source B as it was, also    *)
(* when A and B share site ids.                                            *)
C19_SourcesIndependent ==
    [][/\ \A c \in DOMAIN WATER_COMPANIES :
             EntriesOfCompany(activeEvents', WATER_COMPANIES[c])
                 # EntriesOfCompany(activeEvents, WATER_COMPANIES[c])
             => lastPoll'.company = WATER_COMPANIES[c]
       /\ PollStep =>
             \A i \in DOMAIN lastPoll'.out :
                 lastPoll'.out[i].event.waterCompany = lastPoll'.company
    ]_vars

(* a snapshot of one source has completed its event of site 7 while the    *)
(* other source's event of site 7 stays Active                             *)
C19_Witness ==
    /\ \E i \in Reported(lastPoll.out, "completed") :
          /\ lastPoll.out[i].event.siteId = <<"7">>
          /\ lastPoll.out[i].event.waterCompany = lastPoll.company
    /\ \E j \in DOMAIN activeEvents :
          /\ activeEvents[j].value.siteId = <<"7">>
          /\ activeEvents[j].value.waterCompany # lastPoll.company

(* the step processes the snapshot the previous call processed *)
ReplayStep ==
    /\ CallStep
    /\ lastCall.op = "processFeatures"
    /\ lastCall'.op = "processFeatures"
    /\ lastCall'.id = lastCall.id
    /\ lastCall'.event = lastCall.event
    /\ lastCall'.ret = lastCall.ret

(* C20: processing the snapshot of a source a second time, with nothing    *)
(* but time passing in between, creates no event and completes none; the   *)
(* keys of activeEvents and every startTime are as after the first pass,   *)
(* and nothing is handed to the queue.                                     *)
C20_ReplayIdempotent ==
    [][ReplayStep =>
        /\ lastPoll'.out = << >>
        /\ created' = created
        /\ MapKeys(activeEvents') = MapKeys(activeEvents)
        /\ \A k \in MapKeys(activeEvents) :
              MapGet(activeEvents', k).startTime = MapGet(activeEvents, k).startTime
        /\ queue' = queue
    ]_vars

(* a snapshot of two records has been processed a second time, later than *)
(* the first; the source has an Active event, and a completed event of     *)
(* another site                                                            *)
C20_Witness ==
    /\ lastCall.op = "processFeatures"
    /\ lastCall.had
    /\ lastCall.ret
    /\ Len(lastCall.event) = 2
    /\ \E j \in DOMAIN activeEvents :
          /\ activeEvents[j].value.waterCompany = lastPoll.company
          /\ activeEvents[j].value.startTime < clock
          /\ activeEvents[j].value.rawData.StatusStart = Null
          /\ \E i \in DOMAIN db.events :
                /\ db.events[i].status = "completed"
                /\ db.events[i].waterCompany = lastPoll.company
                /\ db.events[i].siteId # activeEvents[j].value.siteId

----------------------------------------------------------------------------
(* Failures, re-entrance and atomicity on the event loop, under LoopSpec *)

(* a step in which an invocation of checkAPI deals with the result of the  *)
(* fetch it awaits                                                         *)
FetchStep ==
    /\ monitor' # monitor
    /\ Len(monitor'.checks) <= Len(monitor.checks)

(* invocation k has gone on from the company it awaited to the next one,   *)
(* or has ended after the last one                                         *)
WentOn(k) ==
    /\ lastPoll'.company = WATER_COMPANIES[monitor.checks[k]]
    /\ monitor'.checks =
          IF monitor.checks[k] < Len(WATER_COMPANIES)
          THEN [monitor.checks EXCEPT ![k] = @ + 1]
          ELSE SubSeq(monitor.checks, 1, k - 1) \o SubSeq(monitor.checks, k + 1, Len(monitor.checks))

(* C21: when the fetch for a source fails, no event is created, completed  *)
(* or changed, the store and the queue stay as they were, and the same     *)
(* invocation of checkAPI goes on with the next source.                    *)
C21_FailureIsolated ==
    [][(FetchStep /\ lastPoll'.outcome = "failed") =>
        /\ activeEvents' = activeEvents
        /\ db' = db
        /\ queue' = queue
        /\ lastPoll'.out = << >>
        /\ \E k \in DOMAIN monitor.checks : WentOn(k)
    ]_vars

(* the fetch of the first source has failed while that source has an       *)
(* Active event, and the invocation awaits the fetch of the second source  *)
C21_Witness ==
    /\ lastPoll.outcome = "failed"
    /\ lastPoll.company = WATER_COMPANIES[1]
    /\ monitor.checks = <<2>>
    /\ \E i \in DOMAIN activeEvents : activeEvents[i].value.waterCompany = WATER_COMPANIES[1]

(* C22: a store record with status completed keeps its status, endTime and *)
(* durationMinutes for good.                                               *)
C22_CompletedImmutable ==
    [][\A i \in DOMAIN db.events :
          db.events[i].status = "completed" =>
              /\ i \in DOMAIN db'.events
              /\ db'.events[i].status = "completed"
              /\ db'.events[i].endTime = db.events[i].endTime
              /\ db'.events[i].durationMinutes = db.events[i].durationMinutes
    ]_vars

(* C23: at most one invocation of checkAPI is in flight.                   *)
C23_NoPollReentry == Len(monitor.checks) <= 1

(* C24: at most one publishing cycle is in flight, so no two cycles hold   *)
(* the same batch.                                                         *)
C24_NoCycleReentry ==
    /\ Len(cycles) <= 1
    /\ \A i, j \in DOMAIN cycles : cycles[i] = cycles[j] => i = j

(* C25: every step that changes activeEvents, the store or the entries of  *)
(* the queue is one whole processFeatures call of one invocation: it       *)
(* changes neither the cycles nor the scheduler nor postedEvents, and at   *)
(* its end every site the snapshot reports as discharging has an Active    *)
(* event, no other event of the source is Active, and every event that     *)
(* was ended is reported, stored as completed and, when accepted, queued.  *)
C25_ProcessFeaturesAtomic ==
    [][(activeEvents' # activeEvents \/ db' # db \/ queue'.events # queue.events) =>
        /\ FetchStep
        /\ \E k \in DOMAIN monitor.checks : WentOn(k)
        /\ lastPoll'.outcome = "processed"
        /\ cycles' = cycles
        /\ scheduler' = scheduler
        /\ queue'.postedEvents = queue.postedEvents
        /\ \A site \in lastPoll'.seen :
              \E i \in DOMAIN activeEvents' :
                  /\ activeEvents'[i].value.waterCompany = lastPoll'.company
                  /\ activeEvents'[i].value.siteId = site
        /\ \A i \in DOMAIN activeEvents' :
              activeEvents'[i].value.waterCompany = lastPoll'.company
                  => activeEvents'[i].value.siteId \in lastPoll'.seen
        /\ \A i \in DOMAIN activeEvents :
              (/\ activeEvents[i].value.waterCompany = lastPoll'.company
               /\ activeEvents[i].value.siteId \notin lastPoll'.seen)
              => \E c \in Reported(lastPoll'.out, "completed") :
                    LET event == lastPoll'.out[c].event
                    IN /\ event.id = activeEvents[i].key
                       /\ \E r \in DOMAIN db'.events :
                             /\ db'.events[r].waterCompany = event.waterCompany
                             /\ db'.events[r].siteId = event.siteId
                             /\ db'.events[r].startTime = event.startTime
                             /\ db'.events[r].status = "completed"
                       /\ lastPoll'.out[c].added => MapHas(queue'.events, event.id)
    ]_vars

(* one call has created an event and completed another while a second      *)
(* invocation of checkAPI is in flight                                     *)
C25_Witness ==
    /\ Reported(lastPoll.out, "new") # {}
    /\ Reported(lastPoll.out, "completed") # {}
    /\ monitor.interval
    /\ monitor.checks # << >>

----------------------------------------------------------------------------
(* Restart, under RestartSpec *)

(* C26: no event is created for a site for which the store holds a record  *)
(* that is still active: after a restart the tracker goes on with the      *)
(* events that were Active before.                                         *)
C26_RestartKeepsActive ==
    [][PollStep =>
        \A i \in Reported(lastPoll'.out, "new") :
            ~\E r \in DOMAIN db.events :
                /\ db.events[r].status = "active"
                /\ db.events[r].waterCompany = lastPoll'.out[i].event.waterCompany
                /\ db.events[r].siteId = lastPoll'.out[i].event.siteId
    ]_vars

(* C27: once the store file was found not parseable at startup, no poll    *)
(* happens and the file is not written.                                    *)
C27_MalformedStoreAborts ==
    [][(file.exists /\ ~file.valid) => (file' = file /\ lastPoll' = lastPoll)]_vars

----------------------------------------------------------------------------
(* Start times and skipped records *)

(* C28: a new event's startTime is the record's statusStart when that is   *)
(* present and not in the future, and the now of the poll when it is       *)
(* absent or in the future; so it is never later than now.                 *)
C28_StartTimeFallback ==
    [][PollStep =>
        \A i \in Reported(lastPoll'.out, "new") :
            LET event == lastPoll'.out[i].event
                statusStart == event.rawData.StatusStart
            IN /\ event.startTime <= clock
               /\ (statusStart = Null \/ statusStart > clock) => event.startTime = clock
               /\ (statusStart # Null /\ statusStart <= clock)
                     => event.startTime \in {statusStart, clock}
    ]_vars

HasSiteId(feature) == feature.Id # << >>

(* C29: a snapshot with records without site id is processed as the        *)
(* snapshot without those records is: they create, update and end nothing, *)
(* the other records are processed and the end detection is run.           *)
C29_UnparsedRecordSkipped ==
    [][(/\ CallStep
        /\ lastCall'.op = "processFeatures"
        /\ lastCall'.ret
        /\ \E i \in DOMAIN lastCall'.event : ~HasSiteId(lastCall'.event[i]))
       => LET r == processFeatures([activeEvents |-> activeEvents, db |-> db, file |-> file,
                                    writable |-> TRUE,
                                    queue |-> queue, activeSiteIds |-> {}, out |-> << >>],
                                   lastPoll'.company,
                                   SelectSeq(lastCall'.event, HasSiteId), clock)
          IN /\ activeEvents' = r.activeEvents
             /\ db' = r.db
             /\ queue' = r.queue
             /\ lastPoll'.out = r.out
    ]_vars

(* a snapshot of a record without site id followed by a discharging site:  *)
(* the site's event was created, and the event of a site the snapshot does *)
(* not report was completed                                                *)
C29_Witness ==
    /\ lastCall.op = "processFeatures"
    /\ lastCall.ret
    /\ Len(lastCall.event) = 2
    /\ ~HasSiteId(lastCall.event[1])
    /\ HasSiteId(lastCall.event[2])
    /\ \E i \in Reported(lastPoll.out, "new") :
          lastPoll.out[i].event.siteId = lastCall.event[2].Id
    /\ Reported(lastPoll.out, "completed") # {}

(* C30: no queue entry is older than the retention window by more than the *)
(* minute between two polls.                                               *)
C30_RetentionApplied ==
    \A i \in DOMAIN queue.events :
        queue.events[i].value.endTime >= clock - 604800000 - 60000

----------------------------------------------------------------------------
(* The store: failing writes, keys and completed records *)

(* a step in which an invocation of checkAPI has changed the store in      *)
(* memory and the file does not hold it: the write has failed              *)
SaveFailedStep ==
    /\ FetchStep
    /\ db' # db
    /\ file' # JsonFile(db')

(* C31: when the save of the store fails during a poll, the new event is   *)
(* in activeEvents all the same, an ended event is completed, removed and  *)
(* handed to the queue all the same, the store in memory holds both, and   *)
(* the invocation of checkAPI goes on with the next source; only the file  *)
(* stays as it was.                                                        *)
C31_SaveFailureNotFatal ==
    [][SaveFailedStep =>
        /\ file' = file
        /\ \E k \in DOMAIN monitor.checks : WentOn(k)
        /\ lastPoll'.out # << >> \/ MapKeys(activeEvents') = MapKeys(activeEvents)
        /\ \A site \in lastPoll'.seen :
              \E i \in DOMAIN activeEvents' :
                  /\ activeEvents'[i].value.waterCompany = lastPoll'.company
                  /\ activeEvents'[i].value.siteId = site
                  /\ \E r \in DOMAIN db'.events :
                        /\ db'.events[r].waterCompany = lastPoll'.company
                        /\ db'.events[r].siteId = site
                        /\ db'.events[r].startTime = activeEvents'[i].value.startTime
                        /\ db'.events[r].status = "active"
        /\ \A i \in Reported(lastPoll'.out, "new") :
              /\ ~MapHas(activeEvents, lastPoll'.out[i].event.id)
              /\ MapHas(activeEvents', lastPoll'.out[i].event.id)
              /\ MapGet(activeEvents', lastPoll'.out[i].event.id) = lastPoll'.out[i].event
        /\ \A i \in DOMAIN activeEvents :
              (/\ activeEvents[i].value.waterCompany = lastPoll'.company
               /\ activeEvents[i].value.siteId \notin lastPoll'.seen)
              => /\ ~MapHas(activeEvents', activeEvents[i].key)
                 /\ \E c \in Reported(lastPoll'.out, "completed") :
                       LET event == lastPoll'.out[c].event
                       IN /\ event.id = activeEvents[i].key
                          /\ event.endTime = clock
                          /\ lastPoll'.out[c].added =
                                (event.durationMinutes >= 600 /\ event.id \notin queue.postedEvents)
                          /\ lastPoll'.out[c].added =>
                                /\ MapHas(queue'.events, event.id)
                                /\ MapGet(queue'.events, event.id).endTime = clock
    ]_vars

(* the save has failed in the call that completed the first source's event *)
(* after ten hours and handed it to the queue; an earlier save had worked, *)
(* and the invocation awaits the fetch of the second source                *)
C31_Witness ==
    /\ file.exists
    /\ file # JsonFile(db)
    /\ lastPoll.company = WATER_COMPANIES[1]
    /\ \E c \in Reported(lastPoll.out, "completed") :
          /\ lastPoll.out[c].added
          /\ MapHas(queue.events, lastPoll.out[c].event.id)
    /\ \E k \in DOMAIN monitor.checks : monitor.checks[k] = 2

StoreKey(record) == <<record.waterCompany, record.siteId, record.startTime>>

(* C32: the store holds at most one record per key (waterCompany, siteId,  *)
(* startTime); no step takes a record out of it or changes the key or the  *)
(* id of a record; the ids of two records differ.                          *)
C32_StoreMonotone ==
    [][/\ \A i, j \in DOMAIN db'.events :
             \/ i = j
             \/ /\ StoreKey(db'.events[i]) # StoreKey(db'.events[j])
                /\ db'.events[i].id # db'.events[j].id
       /\ Len(db'.events) >= Len(db.events)
       /\ \A i \in DOMAIN db.events :
             /\ StoreKey(db'.events[i]) = StoreKey(db.events[i])
             /\ db'.events[i].id = db.events[i].id
    ]_vars

(* a second event was created under the key of a stored record, and the    *)
(* store holds one record                                                  *)
C32_Witness ==
    /\ created = 2
    /\ Len(db.events) = 1
    /\ db.nextId = 2

(* C33: when a poll completes an event, the store record of the event has  *)
(* status completed, the event's endTime and the event's durationMinutes,  *)
(* neither of them null, also when the duration is 0 minutes.              *)
C33_CompletedHasDuration ==
    [][PollStep =>
        \A c \in Reported(lastPoll'.out, "completed") :
            LET event == lastPoll'.out[c].event
            IN \E r \in DOMAIN db'.events :
                  /\ StoreKey(db'.events[r]) = StoreKey(event)
                  /\ db'.events[r].status = "completed"
                  /\ db'.events[r].endTime = event.endTime
                  /\ db'.events[r].endTime # Null
                  /\ db'.events[r].durationMinutes = event.durationMinutes
                  /\ db'.events[r].durationMinutes # Null
    ]_vars

----------------------------------------------------------------------------
(* Polls while a publishing cycle is in flight, and events of a site that  *)
(* discharges again                                                        *)

(* C34: every id a cycle marks as posted is the id of an event of the      *)
(* batch the cycle read, and the entry the queue holds for that id when it *)
(* is marked is that event, with its startTime and endTime: an entry a     *)
(* poll has put in its place meanwhile is not marked.                      *)
C34_MarksOnlyPublished ==
    [][CycleEndStep =>
        \A id \in queue'.postedEvents \ queue.postedEvents :
            \E b \in EndedBatches : \E k \in DOMAIN b :
                /\ b[k].id = id
                /\ MapHas(queue.events, id) =>
                      /\ MapGet(queue.events, id).startTime = b[k].startTime
                      /\ MapGet(queue.events, id).endTime = b[k].endTime
    ]_vars

(* C35: when a site whose earlier event was dispatched has discharged      *)
(* again, from a later startTime, and that event is completed after 600    *)
(* minutes or more, the queue accepts it and getPostableEvents returns it. *)
C35_NewDischargeAccepted ==
    [][PollStep =>
        \A c \in Reported(lastPoll'.out, "completed") :
            LET event == lastPoll'.out[c].event
            IN (/\ event.durationMinutes >= 600
                /\ event.id \in marked
                /\ MapHas(queue.events, event.id)
                /\ MapGet(queue.events, event.id).startTime < event.startTime)
               => /\ lastPoll'.out[c].added
                  /\ \E j \in DOMAIN getPostableEvents(queue') :
                        /\ getPostableEvents(queue')[j].id = event.id
                        /\ getPostableEvents(queue')[j].startTime = event.startTime
    ]_vars

(* the ids of the events handed to the queue under LiveSpec *)
ArrivalIds == {CompletedEvent(n, StartClock).id : n \in 1..MaxArrivals}

(* C36: every event the queue has accepted is marked as posted in the end, *)
(* or evicted, with or without credentials for Twitter and while newer     *)
(* events arrive.                                                          *)
C36_EventuallyDispatched ==
    \A id \in ArrivalIds :
        (MapHas(queue.events, id) /\ id \notin queue.postedEvents)
            ~> (id \in queue.postedEvents \/ ~MapHas(queue.events, id))

----------------------------------------------------------------------------
(* The store and the tracker side by side *)

ActiveKeys(m) == {StoreKey(m[i].value) : i \in DOMAIN m}

StoredKeys(data, status) ==
    {StoreKey(data.events[r]) : r \in {j \in DOMAIN data.events : data.events[j].status = status}}

----------------------------------------------------------------------------
(* What ends an event *)

(* C38: a snapshot of a source that was fetched and is not empty completes *)
(* an Active event of that source exactly when it holds no record of the   *)
(* event's site with status 1: a record with status 0, one with status -1  *)
(* and no record at all end the event alike.                               *)
C38_EndedUnlessDischarging ==
    [][(/\ CallStep
        /\ lastCall'.op = "processFeatures"
        /\ lastCall'.ret
        /\ lastCall'.event # << >>)
       => \A i \in DOMAIN activeEvents :
             activeEvents[i].value.waterCompany = lastPoll'.company =>
                LET key == activeEvents[i].key
                    discharging == \E j \in DOMAIN lastCall'.event :
                                       /\ lastCall'.event[j].Id = activeEvents[i].value.siteId
                                       /\ lastCall'.event[j].Status = 1
                    completed == \E c \in Reported(lastPoll'.out, "completed") :
                                     /\ lastPoll'.out[c].event.id = key
                                     /\ lastPoll'.out[c].event.status = "completed"
                IN IF discharging
                   THEN MapHas(activeEvents', key) /\ ~completed
                   ELSE ~MapHas(activeEvents', key) /\ completed
    ]_vars

(* a snapshot with a record of status -1 for site 7 and a record of status *)
(* 1 for site 8 has completed the event of site 7, not that of site 8      *)
C38_Witness ==
    /\ lastCall.op = "processFeatures"
    /\ lastCall.ret
    /\ \E j \in DOMAIN lastCall.event :
          lastCall.event[j].Id = <<"7">> /\ lastCall.event[j].Status = 0 - 1
    /\ \E c \in Reported(lastPoll.out, "completed") : lastPoll.out[c].event.siteId = <<"7">>
    /\ Reported(lastPoll.out, "new") = {}
    /\ \E i \in DOMAIN activeEvents :
          /\ activeEvents[i].value.siteId = <<"8">>
          /\ activeEvents[i].value.waterCompany = lastPoll.company

----------------------------------------------------------------------------
(* The timer of the fixed-schedule scheduler, under FixedSpec *)

(* C39: once stop() has returned, no timeout is armed and no publishing    *)
(* cycle starts until start() is called again, also when a cycle was in    *)
(* flight at the stop.                                                     *)
C39_StopCancelsTimer ==
    [][/\ ~scheduler'.isRunning => ~scheduler'.timer.armed
       /\ Len(cycles') > Len(cycles) => scheduler.isRunning
    ]_vars

MinuteOfDay(t) == (LocalTime(t) % MsPerDay) \div MsPerMinute

LocalDay(t) == LocalTime(t) \div MsPerDay

(* C40: getNextScheduledTime returns the first of the sixteen slots 00:00, *)
(* 01:30, ..., 22:30 of the day whose minute of the day is greater than    *)
(* the current one, or 00:00 of the next day when there is none; the time  *)
(* returned is later than now and at most 90 minutes away.                 *)
C40_NextSlot ==
    LET next == getNextScheduledTime(clock)
        slots == {90 * k : k \in 0..15}
        later == {m \in slots : m > MinuteOfDay(clock)}
    IN /\ next > clock
       /\ next - clock <= 90 * 60000
       /\ LocalTime(next) % 60000 = 0
       /\ IF later # {}
          THEN /\ LocalDay(next) = LocalDay(clock)
               /\ MinuteOfDay(next) \in later
               /\ \A m \in later : MinuteOfDay(next) <= m
          ELSE /\ LocalDay(next) = LocalDay(clock) + 1
               /\ MinuteOfDay(next) = 0

====
